---- MODULE Spec2Model ----
(***************************************************************************)
(* Nebula Studio text-to-video synthesizer: the Home component's render    *)
(* state (phase, progress, error, videoUrl and the settings), the          *)
(* handleGenerate / reset handlers, the renderTimelineToVideo frame loop   *)
(* and the MediaRecorder events, one action per JavaScript task.  State    *)
(* updates queued by a task and the React commit that follows it (with the *)
(* videoUrl effect cleanup) belong to that task's action.                  *)
(***************************************************************************)
EXTENDS Integers, Sequences, FiniteSets, TLC

\* ---------------------------------------------------------------- bounds
\* Number of accepted generate clicks (render runs) in one session.
MaxRuns == 2
\* Number of changes made to the settings controls in one session.
MaxEdits == 2
\* Number of characters typed into the textarea in one session of typing.
MaxTyped == 3
\* Number of sentences in the prompt a session of typing starts from.
MaxScenes == 6
\* Number of lines wrapLines may break a sentence into.
MaxLines == 3

\* ------------------------------------------------------------- numbers
\* A JavaScript number that is a ratio of two integers, kept in lowest
\* terms so that equal numbers are equal values.
RECURSIVE Gcd(_, _)
Gcd(a, b) == IF b = 0 THEN a ELSE Gcd(b, a % b)

\* F(x) and F(x, y) with each argument worked out once, before F uses it, as
\* JavaScript evaluates the arguments of a call: nested arithmetic is then
\* worked out once per operation wherever it is evaluated, ENABLED included.
Once(F(_), x) == CHOOSE z \in { F(a) : a \in { x } } : TRUE
Once2(F(_, _), x, y) == CHOOSE z \in { F(a, b) : a \in { x }, b \in { y } } : TRUE

Ratio(n, d) ==
  Once2(LAMBDA a, b : LET g == Gcd(a, b) IN [num |-> a \div g, den |-> b \div g], n, d)

Zero == Ratio(0, 1)
One == Ratio(1, 1)

\* A whole number as a JavaScript number.
Whole(n) == Ratio(n, 1)

RatioLeq(x, y) == x.num * y.den <= y.num * x.den
RatioLess(x, y) == x.num * y.den < y.num * x.den
RatioTimes(x, y) == Once2(LAMBDA a, b : Ratio(a.num * b.num, a.den * b.den), x, y)
RatioOver(x, y) == Once2(LAMBDA a, b : Ratio(a.num * b.den, a.den * b.num), x, y)
RatioMinus(x, y) ==
  Once2(LAMBDA a, b : Ratio(a.num * b.den - b.num * a.den, a.den * b.den), x, y)
\* Math.floor(x)
Floor(x) == x.num \div x.den
\* Math.abs, Math.max, Math.min
Abs(x) == Once(LAMBDA a : IF a.num < 0 THEN Ratio(0 - a.num, a.den) ELSE a, x)
Max(x, y) == Once2(LAMBDA a, b : IF RatioLeq(a, b) THEN b ELSE a, x, y)
Min(x, y) == Once2(LAMBDA a, b : IF RatioLeq(a, b) THEN a ELSE b, x, y)
\* Math.sin(Math.PI * m) for m in [0, 1]: the rational approximation
\* 16 m (1 - m) / (5 - 4 m (1 - m)), equal to the sine at m = 0, 1/6, 1/2,
\* 5/6 and 1 and within 0.002 of it in between.
SinPi(m) ==
  Once(LAMBDA q : RatioOver(RatioTimes(Whole(16), q),
                            RatioMinus(Whole(5), RatioTimes(Whole(4), q))),
       Once(LAMBDA a : RatioTimes(a, RatioMinus(One, a)), m))

RunIds == 1..MaxRuns
\* The positions of the frames-per-second and segment-seconds sliders, scaled
\* down from 12..60 and 2..6.
FpsChoices == { 1, 2 }
SecondsChoices == { Whole(1), Whole(2) }

\* The settings a session of the driver starts from.
DriverFpsChoices == { 1, 2, 3 }
DriverSecondsChoices == { Whole(1), Whole(2), Whole(3) }
DriverPromptChoices ==
  { <<"a", ".">>, <<"a", ".", " ", "b">>, <<"a", "!", "b", "?", "\n", "c">> }

\* Prompts the textarea is set to: strings are sequences of characters.
PromptChoices == { <<>>, <<"a", ".">>, <<"a", ".", " ", "b">> }
\* The styles the style buttons select among in this model.
StyleChoices == { "cosmic", "noir" }
\* What the browser offers the session: everything, or one thing missing.
EnvChoices == { "ok", "noMediaRecorder", "noMimeType", "noCanvas", "noContext" }

\* ------------------------------------------------------- pure functions
IsSeparator(c) == c \in { "\n", ".", "!", "?" }
IsSpace(c) == c \in { " ", "\t", "\n", "\r" }

RECURSIVE SplitPieces(_, _)
\* input.split(/[\n\.!?]+/): the pieces between maximal runs of separators;
\* cur is the piece being read.  A separator run closes the current piece
\* once; a leading or trailing run yields an empty piece.
SplitPieces(s, cur) ==
  IF s = <<>> THEN <<cur>>
  ELSE IF IsSeparator(Head(s))
       THEN IF Len(s) > 1 /\ IsSeparator(s[2])
            THEN SplitPieces(Tail(s), cur)
            ELSE <<cur>> \o SplitPieces(Tail(s), <<>>)
       ELSE SplitPieces(Tail(s), Append(cur, Head(s)))

RECURSIVE TrimStart(_)
TrimStart(s) ==
  IF s # <<>> /\ IsSpace(Head(s)) THEN TrimStart(Tail(s)) ELSE s

RECURSIVE TrimEnd(_)
TrimEnd(s) ==
  IF s # <<>> /\ IsSpace(s[Len(s)]) THEN TrimEnd(SubSeq(s, 1, Len(s) - 1)) ELSE s

Trim(s) == TrimEnd(TrimStart(s))

RECURSIVE FilterNonEmpty(_)
FilterNonEmpty(ss) ==
  IF ss = <<>> THEN <<>>
  ELSE IF Head(ss) = <<>> THEN FilterNonEmpty(Tail(ss))
       ELSE <<Head(ss)>> \o FilterNonEmpty(Tail(ss))

\* splitSentences without the trim of each piece.
splitSentencesUntrimmed(input) == FilterNonEmpty(SplitPieces(input, <<>>))

splitSentences(input) ==
  LET pieces == SplitPieces(input, <<>>)
  IN FilterNonEmpty([i \in 1..Len(pieces) |-> Trim(pieces[i])])

STYLE_PALETTES ==
  [ cosmic   |-> << <<"#1b0033", "#5c00b3">>, <<"#0b1a4a", "#170e75">>,
                    <<"#2a0a4a", "#4a117a">>, <<"#05010f", "#2d1c7a">> >>,
    tropical |-> << <<"#ff8a5c", "#ffd452">>, <<"#ff6b6b", "#ffd166">>,
                    <<"#ffbe0b", "#ffb4a2">>, <<"#ff9f1c", "#ffbf69">> >>,
    noir     |-> << <<"#0b0b0b", "#1f1f1f">>, <<"#111111", "#2b2b2b">>,
                    <<"#090909", "#202020">>, <<"#131313", "#292929">> >>,
    sunrise  |-> << <<"#ff758f", "#ffe2e2">>, <<"#ff9b73", "#ffc773">>,
                    <<"#ff6f91", "#ff9671">>, <<"#f9ada0", "#f8ede3">> >>,
    aqua     |-> << <<"#003f5c", "#2f4b7c">>, <<"#005377", "#3185fc">>,
                    <<"#2f4b7c", "#00b8a9">>, <<"#1f4068", "#2a9d8f">> >>,
    mono     |-> << <<"#111827", "#374151">>, <<"#0f172a", "#1f2937">>,
                    <<"#18181b", "#27272a">>, <<"#1a202c", "#2d3748">> >> ]

\* createPaletteTimeline holding on to the style's last palette once the
\* scenes outnumber the palettes.
createPaletteTimelineClamped(sentences, st) ==
  LET palettes == STYLE_PALETTES[st]
  IN [i \in 1..Len(sentences) |->
        [ sentence |-> sentences[i],
          index    |-> i - 1,
          palette  |-> palettes[IF i > Len(palettes) THEN Len(palettes) ELSE i] ]]

\* createPaletteTimeline numbering the scenes from 1.
createPaletteTimelineFromOne(sentences, st) ==
  LET palettes == STYLE_PALETTES[st]
  IN [i \in 1..Len(sentences) |->
        [ sentence |-> sentences[i],
          index    |-> i,
          palette  |-> palettes[((i - 1) % Len(palettes)) + 1] ]]

\* sentences.map((sentence, index) => ({sentence, index, palette})): the
\* index field is the 0-based JavaScript index of the 1-based position i.
createPaletteTimeline(sentences, st) ==
  LET palettes == STYLE_PALETTES[st]
  IN [i \in 1..Len(sentences) |->
        [ sentence |-> sentences[i],
          index    |-> i - 1,
          palette  |-> palettes[((i - 1) % Len(palettes)) + 1] ]]

\* --------------------------------------------------------------- state
VARIABLES
  prompt,          \* useState(DEFAULT_PROMPT): the textarea's text
  style,           \* useState("cosmic")
  segmentSeconds,  \* useState(3), scaled: a Ratio
  fps,             \* useState(24), scaled
  phase,           \* useState<GenerationPhase>("idle")
  progress,        \* useState(0): a Ratio
  error,           \* useState<string | null>(null)
  videoUrl,        \* useState<string | null>(null)
  env,             \* what the browser offers this session
  mounted,         \* the Home component is mounted: its state and effects exist
  runs,            \* one record per handleGenerate invocation that got past its guard
  revoked,         \* URL.revokeObjectURL calls received, per run's object URL
  edits,           \* changes made to the settings so far
  last             \* the task that ran last: its handler, the phase before it, its setPhase calls

vars == << prompt, style, segmentSeconds, fps, phase, progress, error, videoUrl,
           env, mounted, runs, revoked, edits, last >>

settingsVars == << prompt, style, segmentSeconds, fps, edits >>
renderVars == << phase, progress, error, videoUrl >>

NoError == "null"
NoUrl == <<>>
\* URL.createObjectURL(blob) of run r: a fresh URL per call.
UrlOf(r) == << "blob", r >>

Phases == { "idle", "preparing", "rendering", "encoding", "complete", "error" }

\* A run that has not been started yet.
NoRun ==
  [ pc |-> "none", fps |-> 0, segmentFrames |-> Zero, totalFrames |-> Zero,
    timeline |-> <<>>, currentFrame |-> 0, drawn |-> <<>>, reports |-> <<>>,
    sleeps |-> <<>>, recorder |-> "none", videoPromise |-> "none",
    stopCalls |-> 0, faulted |-> FALSE, superseded |-> FALSE ]

InFlight(run) == run.pc \in { "sleep", "await" }

\* canGenerate without the look at the sentences.
CanGenerateAlways == TRUE

\* useMemo(() => splitSentences(prompt)) and useMemo(() => createPaletteTimeline(..))
sentences == splitSentences(prompt)
timeline == createPaletteTimeline(sentences, style)
canGenerate == Len(sentences) > 0

\* disabled={!canGenerate || phase === "rendering" || phase === "encoding"}
RenderDisabledByPhase == phase \in { "rendering", "encoding" }

\* The cleanup of useEffect(..., [videoUrl]) at the commit after a task: the
\* previous effect's closure revokes the URL it captured when videoUrl changed.
EffectCleanup(rev, old, new) ==
  IF old # NoUrl /\ old # new
  THEN [rev EXCEPT ![old[2]] = @ + 1]
  ELSE rev

\* URL.revokeObjectURL(videoUrl) inside handleGenerate, on the closure's videoUrl.
ExplicitRevoke(rev, old) ==
  IF old # NoUrl THEN [rev EXCEPT ![old[2]] = @ + 1] ELSE rev

\* Reset and an accepted generate start a new epoch: the runs still in
\* flight belong to the old one, and the locals and logs of the runs that
\* have ended are released (their recorder and promise remain).
Supersede(rs) ==
  [r \in RunIds |->
     IF InFlight(rs[r]) THEN [rs[r] EXCEPT !.superseded = TRUE]
     ELSE IF rs[r].pc \in { "done", "failed" }
          THEN [NoRun EXCEPT !.pc = rs[r].pc, !.recorder = rs[r].recorder,
                             !.videoPromise = rs[r].videoPromise,
                             !.faulted = rs[r].faulted,
                             !.stopCalls = rs[r].stopCalls,
                             !.superseded = rs[r].superseded]
          ELSE rs[r]]

Init ==
  /\ prompt = <<"a", ".">>
  /\ style = "cosmic"
  /\ segmentSeconds = Whole(2)
  /\ fps = 2
  /\ phase = "idle"
  /\ progress = Zero
  /\ error = NoError
  /\ videoUrl = NoUrl
  /\ env \in EnvChoices
  /\ mounted = TRUE
  /\ runs = [r \in RunIds |-> NoRun]
  /\ revoked = [r \in RunIds |-> 0]
  /\ edits = 0
  /\ last = [op |-> "mount", from |-> "idle", writes |-> <<>>]

\* ------------------------------------------ renderTimelineToVideo (driver)
\* const segmentFrames = fps * settings.segmentSeconds
SegmentFrames(f, secs) == RatioTimes(Whole(f), secs)
\* const totalFrames = segmentFrames * timeline.length
TotalFrames(segFrames, sceneCount) == RatioTimes(segFrames, Whole(sceneCount))
\* SliceIndex dividing by one frame too many per scene.
SliceIndexOffByOne(currentFrame, segFrames) ==
  Floor(RatioOver(Whole(currentFrame), RatioMinus(segFrames, Whole(-1))))
\* Math.floor(currentFrame / segmentFrames)
SliceIndex(currentFrame, segFrames) == Floor(RatioOver(Whole(currentFrame), segFrames))
\* FrameInSlice counting from the end of the slice.
FrameInSliceFromEnd(currentFrame, segFrames) ==
  RatioMinus(segFrames,
             RatioMinus(Whole(currentFrame),
                        RatioTimes(segFrames, Whole(SliceIndex(currentFrame, segFrames)))))
\* currentFrame % segmentFrames, of two positive numbers: what is left of
\* currentFrame after the whole multiples of segmentFrames.
FrameInSlice(currentFrame, segFrames) ==
  RatioMinus(Whole(currentFrame),
             RatioTimes(segFrames, Whole(SliceIndex(currentFrame, segFrames))))
\* frameInSlice / segmentFrames
SliceProgress(currentFrame, segFrames) ==
  RatioOver(FrameInSlice(currentFrame, segFrames), segFrames)
\* ProgressRatio reported before the increment of currentFrame.
ProgressBeforeIncrement(currentFrame, totFrames) ==
  RatioOver(Whole(currentFrame - 1), totFrames)
\* onProgress(currentFrame / totalFrames), after currentFrame += 1
ProgressRatio(currentFrame, totFrames) == RatioOver(Whole(currentFrame), totFrames)
\* TitleAlpha without the floor of 0.2.
TitleAlphaUnclamped(p) == SinPi(Min(p, RatioMinus(One, p)))
\* titleOpacity = Math.sin(Math.PI * Math.min(p, 1 - p));
\* ctx.globalAlpha = Math.max(0.2, titleOpacity)
TitleAlpha(p) == Max(Ratio(1, 5), SinPi(Min(p, RatioMinus(One, p))))
\* alpha = Math.max(0, 1 - Math.abs(p - lineIndex / Math.max(1, lines.length - 1)) * 2.4);
\* ctx.globalAlpha = Math.max(alpha, 0.15)
CaptionAlpha(p, lineIndex, lineCount) ==
  LET spread == IF lineCount - 1 > 1 THEN lineCount - 1 ELSE 1
      alpha == Max(Zero,
                   RatioMinus(One, RatioTimes(Abs(RatioMinus(p, Ratio(lineIndex, spread))),
                                              Ratio(12, 5))))
  IN Max(alpha, Ratio(3, 20))
\* The globalAlpha values of one frame: for the title, and for each line of
\* the caption, whatever number of lines wrapLines breaks the sentence into.
FrameAlphas(p) ==
  [ title |-> TitleAlpha(p),
    caption |-> [n \in 1..MaxLines |-> [j \in 0..(n - 1) |-> CaptionAlpha(p, j, n)]] ]
\* sleep(1000 / fps)
SleepMs(f) == Ratio(1000, f)
\* NextFrame stepping over a frame.
NextFrameSkips(currentFrame) == currentFrame + 2
\* currentFrame += 1
NextFrame(currentFrame) == currentFrame + 1

\* The locals renderTimelineToVideo sets up from its arguments before the loop,
\* and the recorder and promise handleGenerate created for the run.
StartRun(tl, f, secs) ==
  [ pc |-> "sleep",
    fps |-> f,
    segmentFrames |-> SegmentFrames(f, secs),
    totalFrames |-> TotalFrames(SegmentFrames(f, secs), Len(tl)),
    timeline |-> tl,
    currentFrame |-> 0,
    drawn |-> <<>>,
    reports |-> <<>>,
    sleeps |-> <<>>,
    recorder |-> "recording",
    videoPromise |-> "pending",
    stopCalls |-> 0,
    faulted |-> FALSE,
    superseded |-> FALSE ]

\* timeline[sliceIndex]: undefined outside the array.
SliceAt(run) ==
  LET i == SliceIndex(run.currentFrame, run.segmentFrames) + 1
  IN IF i \in DOMAIN run.timeline THEN << run.timeline[i] >> ELSE <<>>

\* DrawFrame pacing itself by the fps slider as it stands, not by the fps the
\* run started with.
DrawFrameLiveSettings(run) ==
  LET cf == run.currentFrame
      next == NextFrame(cf)
  IN [ run EXCEPT
         !.drawn = Append(@, [ frame |-> cf,
                               sliceIndex |-> SliceIndex(cf, run.segmentFrames),
                               sliceProgress |-> SliceProgress(cf, run.segmentFrames),
                               slice |-> SliceAt(run)[1],
                               alphas |-> FrameAlphas(SliceProgress(cf, run.segmentFrames)),
                               afterSleeps |-> Len(run.sleeps) ]),
         !.currentFrame = next,
         !.reports = Append(@, ProgressRatio(next, run.totalFrames)),
         !.sleeps = Append(@, SleepMs(fps)),
         !.pc = "sleep" ]

\* One iteration of the while loop, from the slice lookup to the sleep: the
\* frame drawn (its index, slice and slice progress), the increment, the
\* progress report and the timed suspension.
DrawFrame(run) ==
  LET cf == run.currentFrame
      next == NextFrame(cf)
  IN [ run EXCEPT
         !.drawn = Append(@, [ frame |-> cf,
                               sliceIndex |-> SliceIndex(cf, run.segmentFrames),
                               sliceProgress |-> SliceProgress(cf, run.segmentFrames),
                               slice |-> SliceAt(run)[1],
                               alphas |-> FrameAlphas(SliceProgress(cf, run.segmentFrames)),
                               afterSleeps |-> Len(run.sleeps) ]),
         !.currentFrame = next,
         !.reports = Append(@, ProgressRatio(next, run.totalFrames)),
         !.sleeps = Append(@, SleepMs(run.fps)),
         !.pc = "sleep" ]

\* ------------------------------------------------ handleGenerate's stages
\* What a task has done so far to the render state and to its run: the
\* queued state updates in order, the setPhase calls and the revocations.
SetPhase(st, p) == [st EXCEPT !.phase = p, !.writes = Append(@, p)]

\* catch (err): setPhase("error"); setError(message)
Catch(st, message) ==
  [ SetPhase(st, "error") EXCEPT !.error = message, !.run.pc = "failed" ]

\* resolve(blob) and reject(error) settle the promise once: a later call on
\* a settled promise has no effect.
Resolve(promise) == IF promise = "pending" THEN "resolved" ELSE promise
Reject(promise) == IF promise = "pending" THEN "rejected" ELSE promise

\* RecorderStop leaving the recorder as it is.
RecorderStopIgnored(rec) == rec

\* recorder.stop() on a recording recorder: it starts to stop and its stop
\* event follows.
RecorderStop(rec) == IF rec = "recording" THEN "stopping" ELSE rec

\* After the await of renderTimelineToVideo: setPhase("encoding"),
\* recorder.stop(), await videoPromise.  On a recorder that an error has
\* already made inactive, stop() throws into the catch.
EncodeStage(st) ==
  LET s1 == [ SetPhase(st, "encoding") EXCEPT !.run.stopCalls = @ + 1 ]
  IN IF s1.run.recorder # "recording"
     THEN Catch(s1, "The MediaRecorder's state is 'inactive'.")
     ELSE [ s1 EXCEPT !.run.recorder = RecorderStop(@), !.run.pc = "await" ]

\* The frame loop from where it stands until it suspends or ends:
\* while (currentFrame < totalFrames) { draw; report; await sleep }.
LoopStage(st) ==
  IF RatioLess(Whole(st.run.currentFrame), st.run.totalFrames)
  THEN IF SliceAt(st.run) = <<>>
       THEN Catch(st, "Cannot read properties of undefined")
       ELSE Once(LAMBDA run1 : [ st EXCEPT !.run = run1,
                                           !.progress = run1.reports[Len(run1.reports)] ],
                 DrawFrame(st.run))
  ELSE EncodeStage(st)

\* After the await of videoPromise: setPhase("complete"); setProgress(1);
\* setVideoUrl(URL.createObjectURL(blob)).
CompleteStage(st, r) ==
  [ SetPhase(st, "complete") EXCEPT
      !.progress = One, !.videoUrl = UrlOf(r), !.run.pc = "done" ]

\* The render state as a task finds it, for run record run.
TaskState(run) ==
  [ phase |-> phase, progress |-> progress, error |-> error, videoUrl |-> videoUrl,
    run |-> run, writes |-> <<>>, revoked |-> revoked ]

\* The end of a task: React applies the queued updates and commits, the
\* videoUrl effect's cleanup runs, and the run's record is stored.  Once the
\* component is unmounted React drops the updates: nothing is committed and
\* no effect runs.
Commit(r, st, rs, op) ==
  \E s \in { st } :
    /\ IF mounted
       THEN /\ phase' = s.phase
            /\ progress' = s.progress
            /\ error' = s.error
            /\ videoUrl' = s.videoUrl
            /\ revoked' = EffectCleanup(s.revoked, videoUrl, s.videoUrl)
            /\ last' = [op |-> op, from |-> phase, writes |-> s.writes]
       ELSE /\ UNCHANGED << renderVars, revoked >>
            /\ last' = [op |-> op, from |-> phase, writes |-> <<>>]
    /\ runs' = [rs EXCEPT ![r] = s.run]

\* ------------------------------------------------------------- actions
\* The first unused run record.
FreshRun(r) ==
  /\ runs[r].pc = "none"
  /\ \A q \in RunIds : q < r => runs[q].pc # "none"

\* pickMimeType(): the first candidate MediaRecorder.isTypeSupported accepts,
\* or null.
MimeCandidates ==
  << "video/webm;codecs=vp9", "video/webm;codecs=vp8", "video/webm", "video/mp4" >>
isTypeSupported(type) == env # "noMimeType" /\ type \in { "video/webm", "video/mp4" }
pickMimeType ==
  LET hits == { i \in DOMAIN MimeCandidates : isTypeSupported(MimeCandidates[i]) }
  IN IF hits = {} THEN "null"
     ELSE MimeCandidates[CHOOSE i \in hits : \A j \in hits : i <= j]

\* GenerateStage with renderTimelineToVideo going on without a look at what
\* canvas.getContext("2d") returned.
GenerateStageUncheckedContext(st) ==
  LET s1 == [ SetPhase(st, "preparing") EXCEPT
                !.videoUrl = NoUrl, !.error = NoError, !.progress = Zero,
                !.revoked = ExplicitRevoke(@, videoUrl) ]
  IN CASE env = "noMediaRecorder" ->
            Catch(s1, "MediaRecorder is not available in this environment.")
       [] pickMimeType = "null" ->
            Catch(s1, "No supported video MIME type found for this browser.")
       [] env = "noCanvas" ->
            Catch(s1, "The rendering surface could not be prepared.")
       [] OTHER ->
            LoopStage(SetPhase([ s1 EXCEPT !.run = StartRun(timeline, fps, segmentSeconds) ],
                               "rendering"))

\* handleGenerate past its guard, up to its first suspension: the four
\* state updates, the revocation of the closure's videoUrl, the environment
\* checks, the recorder, and renderTimelineToVideo up to its first sleep.
GenerateStage(st) ==
  LET s1 == [ SetPhase(st, "preparing") EXCEPT
                !.videoUrl = NoUrl, !.error = NoError, !.progress = Zero,
                !.revoked = ExplicitRevoke(@, videoUrl) ]
  IN CASE env = "noMediaRecorder" ->
            Catch(s1, "MediaRecorder is not available in this environment.")
       [] pickMimeType = "null" ->
            Catch(s1, "No supported video MIME type found for this browser.")
       [] env = "noCanvas" ->
            Catch(s1, "The rendering surface could not be prepared.")
       [] OTHER ->
            LET s2 == SetPhase([ s1 EXCEPT !.run = StartRun(timeline, fps, segmentSeconds) ],
                               "rendering")
            IN IF env = "noContext"
               THEN Catch(s2, "Canvas context is not available.")
               ELSE LoopStage(s2)

\* A click on Render, which the button takes unless the phase disables it;
\* handleGenerate returns at once when there are no sentences.
handleGenerate ==
  /\ mounted
  /\ ~RenderDisabledByPhase
  /\ IF ~canGenerate
     THEN /\ last' = [op |-> "handleGenerate", from |-> phase, writes |-> <<>>]
          /\ UNCHANGED << settingsVars, renderVars, env, mounted, runs, revoked >>
     ELSE \E r \in RunIds :
            /\ FreshRun(r)
            /\ Commit(r, GenerateStage(TaskState(NoRun)), Supersede(runs), "handleGenerate")
            /\ UNCHANGED << settingsVars, env, mounted >>

\* ResetStage without setError(null).
ResetKeepsError(st) ==
  [ SetPhase(st, "idle") EXCEPT !.videoUrl = NoUrl, !.progress = Zero ]

\* What reset leaves in the render state.
ResetStage(st) ==
  [ SetPhase(st, "idle") EXCEPT
      !.videoUrl = NoUrl, !.progress = Zero, !.error = NoError ]

\* A click on Reset, enabled in every phase.
reset ==
  LET st == ResetStage(TaskState(NoRun))
  IN /\ mounted
     /\ phase' = st.phase
     /\ progress' = st.progress
     /\ error' = st.error
     /\ videoUrl' = st.videoUrl
     /\ revoked' = EffectCleanup(st.revoked, videoUrl, st.videoUrl)
     /\ runs' = Supersede(runs)
     /\ last' = [op |-> "reset", from |-> phase, writes |-> st.writes]
     /\ UNCHANGED << settingsVars, env, mounted >>

\* The timer of sleep(1000 / fps) fires and run r's frame loop goes on.
TimerFires(r) ==
  /\ runs[r].pc = "sleep"
  /\ Commit(r, LoopStage(TaskState(runs[r])), runs, "timer")
  /\ UNCHANGED << settingsVars, env, mounted >>

\* The recorder's stop event, after recorder.stop() or after an error:
\* onstop resolves the promise with the blob, and a handleGenerate that
\* awaits the promise completes the run.
RecorderOnStop(r) ==
  /\ runs[r].recorder \in { "stopping", "errored" }
  /\ LET st == TaskState([ runs[r] EXCEPT !.recorder = "inactive",
                                          !.videoPromise = Resolve(@) ])
     IN Commit(r,
               IF runs[r].pc = "await" /\ st.run.videoPromise = "resolved"
               THEN CompleteStage(st, r)
               ELSE st,
               runs, "recorder.onstop")
  /\ UNCHANGED << settingsVars, env, mounted >>

\* RecorderOnError with no onerror handler attached to reject the promise.
RecorderOnErrorUnheard(r) ==
  /\ runs[r].recorder \in { "recording", "stopping" }
  /\ LET st == TaskState([ runs[r] EXCEPT !.recorder = "errored",
                                          !.faulted = TRUE ])
     IN Commit(r, st, runs, "recorder.onerror")
  /\ UNCHANGED << settingsVars, env, mounted >>

\* The recorder's error event while it is active: the recorder goes
\* inactive (its stop event is still to come), onerror rejects the promise,
\* and a handleGenerate that awaits the promise catches.
RecorderOnError(r) ==
  /\ runs[r].recorder \in { "recording", "stopping" }
  /\ LET st == TaskState([ runs[r] EXCEPT !.recorder = "errored",
                                          !.videoPromise = Reject(@),
                                          !.faulted = TRUE ])
     IN Commit(r,
               IF runs[r].pc = "await" /\ st.run.videoPromise = "rejected"
               THEN Catch(st, "An unknown recording error occurred.")
               ELSE st,
               runs, "recorder.onerror")
  /\ UNCHANGED << settingsVars, env, mounted >>

\* The component unmounts: the cleanup of the videoUrl effect revokes the URL
\* it captured, and the state, the buttons and the video element are gone.
\* Timers and recorder events of a run in flight still arrive afterwards.
Unmount ==
  /\ mounted
  /\ mounted' = FALSE
  /\ revoked' = EffectCleanup(revoked, videoUrl, NoUrl)
  /\ last' = [op |-> "unmount", from |-> phase, writes |-> <<>>]
  /\ UNCHANGED << settingsVars, renderVars, env, runs >>

\* The settings controls: textarea, style buttons and the two sliders.
SetPrompt ==
  /\ mounted
  /\ edits < MaxEdits
  /\ edits' = edits + 1
  /\ \E p \in PromptChoices : p # prompt /\ prompt' = p
  /\ last' = [op |-> "setPrompt", from |-> phase, writes |-> <<>>]
  /\ UNCHANGED << style, segmentSeconds, fps, renderVars, env, mounted, runs, revoked >>

SetStyle ==
  /\ mounted
  /\ edits < MaxEdits
  /\ edits' = edits + 1
  /\ \E v \in StyleChoices : v # style /\ style' = v
  /\ last' = [op |-> "setStyle", from |-> phase, writes |-> <<>>]
  /\ UNCHANGED << prompt, segmentSeconds, fps, renderVars, env, mounted, runs, revoked >>

SetSegmentSeconds ==
  /\ mounted
  /\ edits < MaxEdits
  /\ edits' = edits + 1
  /\ \E n \in SecondsChoices : n # segmentSeconds /\ segmentSeconds' = n
  /\ last' = [op |-> "setSegmentSeconds", from |-> phase, writes |-> <<>>]
  /\ UNCHANGED << prompt, style, fps, renderVars, env, mounted, runs, revoked >>

SetFps ==
  /\ mounted
  /\ edits < MaxEdits
  /\ edits' = edits + 1
  /\ \E n \in FpsChoices : n # fps /\ fps' = n
  /\ last' = [op |-> "setFps", from |-> phase, writes |-> <<>>]
  /\ UNCHANGED << prompt, style, segmentSeconds, renderVars, env, mounted, runs, revoked >>

\* The render lifecycle: clicks on Render and Reset, the frame loop's timers
\* and the recorder's events, in every order, with the settings as mounted.
Next ==
  \/ handleGenerate
  \/ reset
  \/ \E r \in RunIds : TimerFires(r)
  \/ \E r \in RunIds : RecorderOnStop(r)
  \/ \E r \in RunIds : RecorderOnError(r)

Spec == Init /\ [][Next]_vars

\* The render lifecycle with its scheduling: a sleep that has been started
\* resumes, and a recorder that has been stopped, or has failed, fires its
\* stop event.  Clicks and recorder errors may or may not happen.
SpecFair ==
  /\ Spec
  /\ \A r \in RunIds : WF_vars(TimerFires(r)) /\ WF_vars(RecorderOnStop(r))

\* The render lifecycle until and after the component unmounts.
NextUnmount ==
  \/ handleGenerate
  \/ reset
  \/ Unmount
  \/ \E r \in RunIds : TimerFires(r)
  \/ \E r \in RunIds : RecorderOnStop(r)
  \/ \E r \in RunIds : RecorderOnError(r)

SpecUnmount == Init /\ [][NextUnmount]_vars

\* The settings controls at work before and during the runs: the prompt,
\* the style and the two sliders change between the other tasks.
NextSettings ==
  \/ handleGenerate
  \/ \E r \in RunIds : TimerFires(r)
  \/ \E r \in RunIds : RecorderOnStop(r)
  \/ \E r \in RunIds : RecorderOnError(r)
  \/ SetPrompt
  \/ SetStyle
  \/ SetSegmentSeconds
  \/ SetFps

SpecSettings == Init /\ [][NextSettings]_vars

\* The driver on its own: a session whose settings were chosen before the
\* first click on Render and stay as they are, with no reset, so that every
\* run has the frame loop to itself.
InitDriver ==
  /\ prompt \in DriverPromptChoices
  /\ style \in StyleChoices
  /\ segmentSeconds \in DriverSecondsChoices
  /\ fps \in DriverFpsChoices
  /\ phase = "idle"
  /\ progress = Zero
  /\ error = NoError
  /\ videoUrl = NoUrl
  /\ env \in EnvChoices
  /\ mounted = TRUE
  /\ runs = [r \in RunIds |-> NoRun]
  /\ revoked = [r \in RunIds |-> 0]
  /\ edits = 0
  /\ last = [op |-> "mount", from |-> "idle", writes |-> <<>>]

NextDriver ==
  \/ handleGenerate
  \/ \E r \in RunIds : TimerFires(r)
  \/ \E r \in RunIds : RecorderOnStop(r)
  \/ \E r \in RunIds : RecorderOnError(r)

SpecDriver == InitDriver /\ [][NextDriver]_vars

\* The driver handed a segmentSeconds that is not a whole number, which the
\* type of its settings (number) admits.
FractionSecondsChoices == { Ratio(1, 2), Whole(1), Ratio(3, 2), Whole(2) }

InitFraction ==
  /\ prompt \in DriverPromptChoices
  /\ style = "cosmic"
  /\ segmentSeconds \in FractionSecondsChoices
  /\ fps \in DriverFpsChoices
  /\ phase = "idle"
  /\ progress = Zero
  /\ error = NoError
  /\ videoUrl = NoUrl
  /\ env = "ok"
  /\ mounted = TRUE
  /\ runs = [r \in RunIds |-> NoRun]
  /\ revoked = [r \in RunIds |-> 0]
  /\ edits = 0
  /\ last = [op |-> "mount", from |-> "idle", writes |-> <<>>]

NextFraction ==
  \/ handleGenerate
  \/ \E r \in RunIds : TimerFires(r)
  \/ \E r \in RunIds : RecorderOnStop(r)
  \/ \E r \in RunIds : RecorderOnError(r)

SpecFraction == InitFraction /\ [][NextFraction]_vars

\* The prompt and style controls on their own: a session that starts from a
\* prompt of no, two or MaxScenes one-letter sentences, in which characters are
\* typed at the end of the textarea and style buttons are clicked.
Alphabet == { "a", " ", ".", "!", "?", "\n" }
AllStyles == DOMAIN STYLE_PALETTES
ScenePrompt(n) ==
  [i \in 1..(2 * n) |->
     IF i % 2 = 0 THEN "." ELSE IF (i \div 2) % 2 = 0 THEN "a" ELSE "b"]

InitPrompt ==
  /\ prompt \in { ScenePrompt(n) : n \in { 0, 2, MaxScenes } }
  /\ style = "cosmic"
  /\ segmentSeconds = Whole(2)
  /\ fps = 2
  /\ phase = "idle"
  /\ progress = Zero
  /\ error = NoError
  /\ videoUrl = NoUrl
  /\ env = "ok"
  /\ mounted = TRUE
  /\ runs = [r \in RunIds |-> NoRun]
  /\ revoked = [r \in RunIds |-> 0]
  /\ edits = 0
  /\ last = [op |-> "mount", from |-> "idle", writes |-> <<>>]

\* onChange of the textarea after a keystroke at the end of the text.
TypeChar ==
  /\ mounted
  /\ edits < MaxTyped
  /\ edits' = edits + 1
  /\ \E c \in Alphabet : prompt' = Append(prompt, c)
  /\ last' = [op |-> "setPrompt", from |-> phase, writes |-> <<>>]
  /\ UNCHANGED << style, segmentSeconds, fps, renderVars, env, mounted, runs, revoked >>

\* onClick of one of the six style buttons.
ChooseStyle ==
  /\ mounted
  /\ \E v \in AllStyles : v # style /\ style' = v
  /\ last' = [op |-> "setStyle", from |-> phase, writes |-> <<>>]
  /\ UNCHANGED << prompt, segmentSeconds, fps, edits, renderVars, env, mounted, runs, revoked >>

NextPrompt ==
  \/ TypeChar
  \/ ChooseStyle

SpecPrompt == InitPrompt /\ [][NextPrompt]_vars

\* -------------------------------------------------------------- claims
\* The setPhase calls of the last task, from the phase it found.
PhaseTrail == << last.from >> \o last.writes

StageAfter ==
  [ idle |-> "preparing", preparing |-> "rendering", rendering |-> "encoding",
    encoding |-> "complete", complete |-> "none", error |-> "none" ]

LegalMove(op, a, b) ==
  \/ StageAfter[a] = b
  \/ b = "error" /\ a # "idle"
  \/ b = "idle" /\ op = "reset"
  \/ b = "preparing" /\ op = "handleGenerate"

\* C1: in every interleaving of clicks, frame-loop steps and recorder
\* events, each change of phase is one stage forward along idle, preparing,
\* rendering, encoding, complete, or into error from a phase other than
\* idle, or reset's move to idle, or generate's move to preparing; so phase
\* becomes encoding only from rendering and complete only from encoding.
C1_PhaseMovesOneStage ==
  \A i \in 1..(Len(PhaseTrail) - 1) :
    LegalMove(last.op, PhaseTrail[i], PhaseTrail[i + 1])

\* C2: at most one render run is in its frame loop at any time: a second
\* frame loop never starts while an earlier one has not finished.
C2_OneFrameLoopAtATime ==
  Cardinality({ r \in RunIds : runs[r].pc = "sleep" }) <= 1

\* C3: once a reset (or a newer generate) has superseded a run in flight, no
\* later step of that run changes phase, progress, videoUrl or error.
C3_StaleRunChangesNothing ==
  [][ (\E r \in RunIds : /\ InFlight(runs[r])
                         /\ runs[r].superseded
                         /\ runs'[r] # runs[r])
      => UNCHANGED renderVars ]_vars

\* The frame loop of a run has ended and handed back to handleGenerate (and
\* the run's locals have not been released yet).
LoopEnded(run) == run.pc \in { "await", "done" } /\ run.timeline # <<>>

\* C4: within one run the values passed to onProgress never decrease, each
\* lies in (0,1], and once the loop has ended the last one is exactly 1.
C4_ProgressMonotoneToOne ==
  \A r \in RunIds :
    LET rep == runs[r].reports
    IN /\ \A i \in 1..Len(rep) : RatioLess(Zero, rep[i]) /\ RatioLeq(rep[i], One)
       /\ \A i \in 1..(Len(rep) - 1) : RatioLeq(rep[i], rep[i + 1])
       /\ LoopEnded(runs[r]) => (rep # <<>> /\ rep[Len(rep)] = One)

\* A run of several frames over two or more scenes has completed.
C4_Witness ==
  \E r \in RunIds :
    /\ runs[r].pc = "done"
    /\ Len(runs[r].timeline) >= 2
    /\ Len(runs[r].reports) >= 4
    /\ runs[r].reports[1] # One

\* C5: a generate invoked while videoUrl holds an exported object URL
\* revokes that URL exactly once, the explicit revoke and the effect
\* cleanup counted together (the new run's URL is created later, by the
\* recorder's stop event).
C5_PriorUrlRevokedOnce ==
  [][ (videoUrl # NoUrl /\ last'.op = "handleGenerate" /\ last'.writes # <<>>)
      => revoked'[videoUrl[2]] = 1 ]_vars

\* C6: reset, whatever the phase it is invoked in (complete and error
\* included, and idle after an earlier reset), leaves phase idle, progress
\* 0, videoUrl null and error null; so a second reset changes nothing.
C6_ResetYieldsIdle ==
  last.op = "reset" =>
    /\ phase = "idle"
    /\ progress = Zero
    /\ videoUrl = NoUrl
    /\ error = NoError
    /\ last.writes = << "idle" >>

\* Reset has just run in phase complete, and the exported URL was released.
C6_Witness ==
  /\ last.op = "reset"
  /\ last.from = "complete"
  /\ \E r \in RunIds : revoked[r] > 0

\* C7: with a prompt of zero sentences, handleGenerate changes nothing:
\* phase, progress, error and videoUrl stay, no recorder or run is created
\* and nothing is revoked.
C7_EmptyPromptGenerateNoOp ==
  [][ (Len(splitSentences(prompt)) = 0 /\ last'.op = "handleGenerate")
      => UNCHANGED << renderVars, runs, revoked, settingsVars >> ]_vars

\* handleGenerate has just returned at its guard on an empty prompt.
C7_Witness ==
  /\ last.op = "handleGenerate"
  /\ last.writes = <<>>
  /\ Len(splitSentences(prompt)) = 0
  /\ phase = last.from

\* C8: while a run is in flight no step, a change of prompt, style, fps or
\* segmentSeconds included, changes the run's timeline, its frames per
\* scene, its total frames or its fps, and every sleep it starts lasts
\* 1000 / fps of the fps it started with.
C8_CopyOnStart ==
  [][ \A r \in RunIds :
        InFlight(runs[r]) =>
          /\ runs'[r].timeline = runs[r].timeline
          /\ runs'[r].segmentFrames = runs[r].segmentFrames
          /\ runs'[r].totalFrames = runs[r].totalFrames
          /\ runs'[r].fps = runs[r].fps
          /\ \A i \in 1..Len(runs'[r].sleeps) : runs'[r].sleeps[i] = SleepMs(runs[r].fps) ]_vars

\* A run drew a frame after every setting had moved away from what the run
\* started with.
C8_Witness ==
  \E r \in RunIds :
    /\ last.op = "timer"
    /\ runs[r].pc = "sleep"
    /\ runs[r].currentFrame >= 2
    /\ runs[r].fps # fps
    /\ runs[r].timeline # timeline

\* C9: within one run the frames drawn are 0, 1, 2, ... in order, each
\* once, one timed suspension follows each frame (frame i is drawn after
\* exactly i suspensions), and a loop that has ended drew totalFrames frames.
C9_FramesInOrder ==
  \A r \in RunIds :
    LET run == runs[r]
    IN /\ Len(run.drawn) = run.currentFrame
       /\ Len(run.sleeps) = Len(run.drawn)
       /\ \A i \in 1..Len(run.drawn) :
            run.drawn[i].frame = i - 1 /\ run.drawn[i].afterSleeps = i - 1
       /\ LoopEnded(run) => Whole(Len(run.drawn)) = run.totalFrames

\* A run has drawn its last frame, the sixth or later, and left the loop.
C9_Witness ==
  \E r \in RunIds :
    /\ runs[r].pc = "await"
    /\ Len(runs[r].drawn) >= 6
    /\ Whole(runs[r].drawn[Len(runs[r].drawn)].frame + 1) = runs[r].totalFrames

\* The frames of scene s (0-based) in a run's drawing log.
FramesOfScene(run, s) == { i \in 1..Len(run.drawn) : run.drawn[i].sliceIndex = s }

\* C10: totalFrames = fps * segmentSeconds * scene count (360 for 24, 3 and
\* 5); a run whose loop has ended drew exactly totalFrames frames, and each
\* scene got exactly fps * segmentSeconds consecutive frames, in order.
C10_FrameCount ==
  /\ TotalFrames(SegmentFrames(24, Whole(3)), 5) = Whole(360)
  /\ \A r \in RunIds :
       LET run == runs[r]
           framesPerScene == RatioTimes(Whole(fps), segmentSeconds)
           perScene == Floor(framesPerScene)
       IN run.timeline # <<>> =>
            /\ run.totalFrames = RatioTimes(framesPerScene, Whole(Len(sentences)))
            /\ LoopEnded(run) =>
                 /\ Whole(Len(run.drawn)) = run.totalFrames
                 /\ Whole(perScene) = framesPerScene
                 /\ \A s \in 0..(Len(run.timeline) - 1) :
                      /\ FramesOfScene(run, s) = (s * perScene + 1)..((s + 1) * perScene)
                      /\ \A i \in FramesOfScene(run, s) :
                           run.drawn[i].slice = run.timeline[s + 1]

\* A run over three scenes of several frames each has ended.
C10_Witness ==
  \E r \in RunIds :
    /\ LoopEnded(runs[r])
    /\ Len(runs[r].timeline) = 3
    /\ RatioLeq(Whole(2), runs[r].segmentFrames)
    /\ Whole(Len(runs[r].drawn)) = RatioTimes(Whole(3), runs[r].segmentFrames)

\* C11: every failure on the render path (MediaRecorder absent, no MIME
\* type, canvas missing, no 2D context, recorder error) ends the run with
\* phase error and a message; and once phase is error only a click on
\* Render or Reset changes it: nothing retries or moves on by itself.
C11_FailureEndsInError ==
  [][ /\ \A r \in RunIds :
           (runs[r].pc # "failed" /\ runs'[r].pc = "failed")
             => (mounted' => (phase' = "error" /\ error' # NoError))
      /\ (phase = "error" /\ phase' # "error")
           => last'.op \in { "handleGenerate", "reset" } ]_vars

ErrorsRaised == { i \in DOMAIN last.writes : last.writes[i] = "error" }

\* C13: in a session whose environment lacks MediaRecorder, a MIME type, the
\* canvas or its 2D context, no run ever draws a frame, reports progress or
\* sleeps; each accepted click on Render raises the error exactly once, as
\* its last phase change, with progress still 0, and no other task raises it.
C13_EnvironmentErrorBeforeFrames ==
  env # "ok" =>
    /\ \A r \in RunIds :
         runs[r].drawn = <<>> /\ runs[r].reports = <<>> /\ runs[r].sleeps = <<>>
    /\ (last.op = "handleGenerate" /\ last.writes # <<>>) =>
         /\ ErrorsRaised = { Len(last.writes) }
         /\ phase = "error" /\ error # NoError /\ progress = Zero
    /\ last.op # "handleGenerate" => ErrorsRaised = {}
    /\ progress = Zero

\* The 2D context was missing: the run failed after its recorder had been
\* started and before a frame was drawn.
C13_Witness ==
  /\ env = "noContext"
  /\ last.op = "handleGenerate"
  /\ last.writes = << "preparing", "rendering", "error" >>
  /\ error = "Canvas context is not available."
  /\ \E r \in RunIds : runs[r].pc = "failed" /\ runs[r].recorder = "recording"

\* C14: every object URL a run created is revoked once it is no longer the
\* exported one (reset or a new generate superseded it) and once the view
\* is unmounted, a URL created by a run that completes after the reset or
\* after the unmount included; and the videoUrl the video element is given
\* is never a revoked URL.
C14_UrlsRevokedWhenSuperseded ==
  /\ \A r \in RunIds :
       (runs[r].pc = "done" /\ (videoUrl # UrlOf(r) \/ ~mounted)) => revoked[r] >= 1
  /\ (mounted /\ videoUrl # NoUrl) => revoked[videoUrl[2]] = 0

\* C15: for every style and every scene position i, from 0, the palette of
\* scene i is the style's entry i mod k, k the number of the style's
\* palettes; so scenes k, k + 1, ... repeat the palettes of scenes 0, 1, ...
C15_PaletteCycles ==
  LET palettes == STYLE_PALETTES[style]
      k == Len(palettes)
  IN /\ k >= 1
     /\ \A i \in 0..(Len(timeline) - 1) :
          /\ timeline[i + 1].palette = palettes[(i % k) + 1]
          /\ i >= k => timeline[i + 1].palette = timeline[i - k + 1].palette

\* A prompt of more sentences than the style has palettes, in a style other
\* than the first, after the style was changed.
C15_Witness ==
  /\ Len(timeline) > Len(STYLE_PALETTES[style]) + 1
  /\ style = "aqua"
  /\ timeline[6].palette = STYLE_PALETTES.aqua[2]

\* C16: after any sequence of changes to the prompt and the style, the
\* timeline has as many scenes as splitSentences(prompt) has sentences,
\* scene i (from 0) carries index i and the i-th sentence, and its palette
\* is one of the current style's.
C16_TimelineMatchesPrompt ==
  LET ss == splitSentences(prompt)
  IN /\ Len(timeline) = Len(ss)
     /\ \A i \in 1..Len(ss) :
          /\ timeline[i].index = i - 1
          /\ timeline[i].sentence = ss[i]
          /\ \E j \in DOMAIN STYLE_PALETTES[style] :
               timeline[i].palette = STYLE_PALETTES[style][j]

\* The prompt was extended by a sentence and the style changed afterwards.
C16_Witness ==
  /\ last.op = "setStyle"
  /\ edits >= 2
  /\ style = "noir"
  /\ Len(timeline) >= 3
  /\ timeline[Len(timeline)].sentence = << "a", " ", "a" >>

\* The first and last characters of each sentence that splitSentences is to
\* return for s, read off s directly: a sentence starts at a character that
\* is neither a separator nor white space and has only white space between
\* it and the separator before it (or the start), and ends likewise.
NoSeparatorIn(s, i, j) == \A m \in i..j : ~IsSeparator(s[m])
IsInk(c) == ~IsSeparator(c) /\ ~IsSpace(c)
SentenceStarts(s) ==
  { i \in 1..Len(s) :
      /\ IsInk(s[i])
      /\ \A m \in 1..(i - 1) : NoSeparatorIn(s, m, i) => IsSpace(s[m]) }
SentenceEnd(s, i) ==
  CHOOSE j \in i..Len(s) :
    /\ IsInk(s[j])
    /\ NoSeparatorIn(s, i, j)
    /\ \A m \in (j + 1)..Len(s) : NoSeparatorIn(s, j, m) => IsSpace(s[m])
KthOf(starts, k) ==
  CHOOSE i \in starts : Cardinality({ j \in starts : j < i }) = k - 1

\* C17: splitSentences(prompt) is, in order, the maximal pieces of the
\* prompt between runs of '.', '!', '?' and newline, each trimmed, the
\* empty ones left out; so every sentence is non-empty, has no white space
\* at either end and no separator in it, a prompt of white space alone
\* gives none, and "Hello world. This is great! Really?" gives "Hello
\* world", "This is great", "Really".
C17_SplitSentences ==
  LET out == splitSentences(prompt)
      starts == SentenceStarts(prompt)
  IN /\ Len(out) = Cardinality(starts)
     /\ \A k \in 1..Len(out) :
          /\ out[k] = SubSeq(prompt, KthOf(starts, k), SentenceEnd(prompt, KthOf(starts, k)))
          /\ out[k] # <<>>
          /\ ~IsSpace(out[k][1]) /\ ~IsSpace(out[k][Len(out[k])])
          /\ \A m \in 1..Len(out[k]) : ~IsSeparator(out[k][m])
     /\ (\A m \in 1..Len(prompt) : IsSpace(prompt[m])) => out = <<>>
     /\ splitSentences(<< "H", "e", "l", "l", "o", " ", "w", "o", "r", "l", "d", ".",
                          " ", "T", "h", "i", "s", " ", "i", "s", " ", "g", "r", "e",
                          "a", "t", "!", " ", "R", "e", "a", "l", "l", "y", "?" >>)
          = << << "H", "e", "l", "l", "o", " ", "w", "o", "r", "l", "d" >>,
               << "T", "h", "i", "s", " ", "i", "s", " ", "g", "r", "e", "a", "t" >>,
               << "R", "e", "a", "l", "l", "y" >> >>

\* A prompt with a run of separators, white space beside them and a piece
\* of white space alone has been split.
C17_Witness ==
  /\ prompt = << "a", ".", "b", ".", " ", "?", "a" >>
  /\ splitSentences(prompt) = << << "a" >>, << "b" >>, << "a" >> >>

InUnit(x, low) == RatioLeq(low, x) /\ RatioLeq(x, One)

\* C18: for every slice progress p of a frame drawn (and for p = 1), every
\* line count n >= 1 and line index j in 0..n-1, the alpha applied to a
\* caption line, max(0.15, 1 - |p - j / max(1, n - 1)| * 2.4), is in
\* [0.15, 1], and the alpha applied to the title, max(0.2, sin(pi *
\* min(p, 1 - p))), is in [0.2, 1].
C18_OpacityClamp ==
  /\ InUnit(TitleAlpha(One), Ratio(1, 5))
  /\ \A n \in 1..MaxLines : \A j \in 0..(n - 1) : InUnit(CaptionAlpha(One, j, n), Ratio(3, 20))
  /\ \A r \in RunIds : \A i \in 1..Len(runs[r].drawn) :
       LET d == runs[r].drawn[i]
       IN /\ InUnit(d.alphas.title, Ratio(1, 5))
          /\ \A n \in 1..MaxLines : \A j \in 0..(n - 1) :
               InUnit(d.alphas.caption[n][j], Ratio(3, 20))

\* A run drew a frame at the start of a scene, where the title and the
\* second caption line sit on their floors, one a third into the scene,
\* where both alphas are between floor and 1, and one at mid-scene, where
\* the title is fully opaque.
C18_Witness ==
  \E r \in RunIds : \E i, k, m \in 1..Len(runs[r].drawn) :
    /\ runs[r].drawn[i].sliceProgress = Zero
    /\ runs[r].drawn[i].alphas.title = Ratio(1, 5)
    /\ runs[r].drawn[i].alphas.caption[2][1] = Ratio(3, 20)
    /\ runs[r].drawn[i].alphas.caption[2][0] = One
    /\ runs[r].drawn[k].sliceProgress = Ratio(1, 3)
    /\ runs[r].drawn[k].alphas.caption[2][0] = Ratio(1, 5)
    /\ RatioLess(Ratio(1, 5), runs[r].drawn[k].alphas.title)
    /\ RatioLess(runs[r].drawn[k].alphas.title, One)
    /\ runs[r].drawn[m].sliceProgress = Ratio(1, 2)
    /\ runs[r].drawn[m].alphas.title = One

\* C19: every frame drawn has sliceIndex = floor(frame / framesPerScene),
\* within 0..sceneCount-1, its slice is that scene of the run's timeline,
\* and sliceProgress = (frame mod framesPerScene) / framesPerScene is in
\* [0, 1); sliceIndex never decreases over the run, and a loop that has
\* ended has visited every scene.
C19_SceneIndexInRange ==
  \A r \in RunIds :
    LET run == runs[r]
        n == Floor(run.segmentFrames)
    IN /\ \A i \in 1..Len(run.drawn) :
            LET d == run.drawn[i]
            IN /\ d.sliceIndex = d.frame \div n
               /\ d.sliceIndex \in 0..(Len(run.timeline) - 1)
               /\ d.slice = run.timeline[d.sliceIndex + 1]
               /\ d.sliceProgress = Ratio(d.frame % n, n)
               /\ RatioLeq(Zero, d.sliceProgress) /\ RatioLess(d.sliceProgress, One)
               /\ i > 1 => run.drawn[i - 1].sliceIndex <= d.sliceIndex
       /\ LoopEnded(run) =>
            { run.drawn[i].sliceIndex : i \in 1..Len(run.drawn) } = 0..(Len(run.timeline) - 1)

\* A completed run of three scenes drew its last scene's last frame, two
\* thirds into the scene.
C19_Witness ==
  \E r \in RunIds :
    /\ runs[r].pc = "done"
    /\ Len(runs[r].timeline) = 3
    /\ \E i \in 1..Len(runs[r].drawn) :
         /\ runs[r].drawn[i].sliceIndex = 2
         /\ runs[r].drawn[i].sliceProgress = Ratio(2, 3)

C21_RecorderStoppedOnEveryExit ==
  \A r \in RunIds :
    (runs[r].pc \in { "done", "failed" } /\ runs[r].recorder # "none")
      => runs[r].recorder \in { "stopping", "errored", "inactive" }

\* recorder.stop() is called at most once per run, once for a run that
\* awaits its video or has it, and only when the frame loop has ended.
StoppedOnceAfterLoop ==
  \A r \in RunIds :
    /\ runs[r].stopCalls <= 1
    /\ (runs[r].pc \in { "await", "done", "failed" } /\ runs[r].drawn # <<>>)
         => runs[r].stopCalls = 1
    /\ runs[r].stopCalls = 1 =>
         ~RatioLess(Whole(runs[r].currentFrame), runs[r].totalFrames)

\* C22: if every sleep resumes and a recorder that was stopped, or failed,
\* fires its stop event, then every run that is in its frame loop or awaits
\* its recording reaches its end, with phase complete or error reported as
\* it ends, so no run is at a sleep, in rendering or in encoding forever;
\* and recorder.stop() is called exactly once by every run that drew frames
\* and left the loop, never before the last frame.
C22_RunsTerminate ==
  /\ []StoppedOnceAfterLoop
  /\ \A r \in RunIds :
       InFlight(runs[r]) ~>
         (runs[r].pc \in { "done", "failed" } /\ phase \in { "complete", "error" })

\* A run of several frames has left the loop, stopped its recorder once and
\* completed on the recorder's stop event.
C22_Witness ==
  \E r \in RunIds :
    /\ runs[r].pc = "done"
    /\ runs[r].stopCalls = 1
    /\ runs[r].currentFrame >= 2
    /\ runs[r].recorder = "inactive"
    /\ phase = "complete"
    /\ last.op = "recorder.onstop"

\* C23: in every reachable state, whatever the order of the generate, reset
\* and run-completion steps, videoUrl is non-null only if phase is complete.
C23_UrlOnlyWhenComplete == videoUrl # NoUrl => phase = "complete"

\* C24: whenever phase is complete, the displayed progress is exactly 1 and
\* videoUrl is non-null; and while phase is complete, no step other than a
\* click on Render or on Reset changes phase or lowers progress.
C24_CompleteIsStable ==
  /\ [](phase = "complete" => (progress = One /\ videoUrl # NoUrl))
  /\ [][ (phase = "complete" /\ last'.op \notin { "handleGenerate", "reset" })
           => (phase' = "complete" /\ ~RatioLess(progress', progress)) ]_vars

====
